---- MODULE Spec2Model ----
(***************************************************************************)
(* Model of seedsigner/gui/components.py: the Fonts cache, the pure        *)
(* centering calculator calc_text_centering, the TextArea constructor      *)
(* (line wrapping with the recursive word-count fitter, stacking, overflow *)
(* check), TextArea.render, and the Button / IconButton / TopNav widgets.  *)
(*                                                                         *)
(* Strings are sequences of one-character strings, so that str.split and   *)
(* str.join are computed, not assumed.  Font metrics come from PIL, which  *)
(* is outside the repository: getsize is modelled by a fixed-advance font  *)
(* whose glyph advances and line height scale with the pixel size.         *)
(***************************************************************************)
EXTENDS Integers, Sequences, FiniteSets, TLC

VARIABLES
    pc,           \* position of the component under construction / in use
    self,         \* the component object: its attributes
    args,         \* the constructor arguments as the caller gave them
    built,        \* the component as its constructor left it
    words,        \* TextArea.__post_init__ local: the words still to place
    min_index,    \* _binary_len_search argument
    max_index,    \* _binary_len_search argument
    index,        \* TextArea.__post_init__ local: (index, tw) of line 170
    tw,           \* TextArea.__post_init__ local
    depth,        \* number of live _binary_len_search frames
    canvas,       \* drawing calls issued by the last render(), in order
    Fonts,        \* the Fonts class state: fonts dict, dict objects, reads
    threads,      \* per thread: its position inside get_font and its locals
    calls,        \* number of get_font calls started so far
    result,       \* what the last get_font call returned
    centering     \* calc_text_centering: its arguments and its return value

widgetVars == <<pc, self, args, built, words, min_index, max_index, index, tw, depth, canvas>>

fontVars == <<threads, calls, result>>

vars == <<pc, self, args, built, words, min_index, max_index, index, tw, depth, canvas,
          Fonts, threads, calls, result, centering>>

---------------------------------------------------------------------------
(* Program constants *)

EDGE_PADDING == 8

COMPONENT_PADDING == 8

BODY_FONT_NAME == "OpenSans-Regular"

BODY_FONT_SIZE == 17

BUTTON_FONT_NAME == "OpenSans-SemiBold"

---------------------------------------------------------------------------
(* Bounds of the model *)

\* longest text handed to a TextArea, in characters
MaxTextLen == 4

\* interpreter recursion limit: live frames of _binary_len_search allowed
\* before the interpreter raises RecursionError
RecursionLimit == 12

Chars == {"a", "b", " "}

TextsOfLen(n) == [1..n -> Chars]

Texts == UNION {TextsOfLen(n) : n \in 0..MaxTextLen}

Widths == {16, 24, 36, 100}

Heights == {0, 1, 40}

FontSizes == {BODY_FONT_SIZE}

SupersamplingFactors == {1, 2}

ScreenXs == {0, 5}

ScreenYs == {0, 3}

---------------------------------------------------------------------------
(* Python arithmetic and string helpers *)

\* int(n / d) for d > 0: float division, then truncation toward zero
int(n, d) == IF n >= 0 THEN n \div d ELSE -((-n) \div d)

\* math.ceil(n / 2) for n >= 0
Ceil2(n) == (n + 1) \div 2

\* r with attribute f set to v
SetAttr(r, f, v) == (f :> v) @@ r

\* str.split(" "): cut at every single space, empty words kept
RECURSIVE Split(_)
Split(s) ==
    IF \A i \in 1..Len(s) : s[i] # " "
    THEN <<s>>
    ELSE LET i == CHOOSE k \in 1..Len(s) : s[k] = " " /\ \A j \in 1..(k-1) : s[j] # " "
         IN  <<SubSeq(s, 1, i - 1)>> \o Split(SubSeq(s, i + 1, Len(s)))

\* " ".join(ws)
RECURSIVE Join(_)
Join(ws) ==
    IF ws = <<>> THEN <<>>
    ELSE IF Len(ws) = 1 THEN ws[1]
    ELSE ws[1] \o <<" ">> \o Join(Tail(ws))

\* the Python slice ws[0:n]
Prefix(ws, n) == SubSeq(ws, 1, IF n < Len(ws) THEN n ELSE Len(ws))

\* a slice that starts one word too far
DropWordsOffByOne(ws, n) == SubSeq(ws, n + 2, Len(ws))

\* the Python slice ws[n:]
DropWords(ws, n) == SubSeq(ws, n + 1, Len(ws))

---------------------------------------------------------------------------
(* Font metrics (PIL): a fixed-advance font scaled by its pixel size *)

GlyphAdvance(c, px) ==
    IF c = "a" THEN px \div 2
    ELSE IF c = "b" THEN (3 * px) \div 4
    ELSE px \div 4

RECURSIVE TextAdvance(_, _)
TextAdvance(s, px) ==
    IF s = <<>> THEN 0 ELSE GlyphAdvance(Head(s), px) + TextAdvance(Tail(s), px)

\* font.getsize(text) -> (width, height)
getsize(font, s) == [w |-> TextAdvance(s, font.size), h |-> font.size]

---------------------------------------------------------------------------
(* Fonts.get_font, executed without interruption *)

NoFonts == [fonts |-> <<>>, objs |-> <<>>, reads |-> <<>>]

\* ImageFont.truetype(path, size): reads the resource, returns a new object
truetype(F, font_name, size) ==
    [name |-> font_name, size |-> size, id |-> Len(F.reads) + 1]

\* lines 60-61
EnsureName(F, font_name) ==
    IF font_name \notin DOMAIN F.fonts
    THEN [F EXCEPT !.objs = Append(@, <<>>),
                   !.fonts = (font_name :> (Len(F.objs) + 1)) @@ @]
    ELSE F

\* lines 63-64 without the membership test: every call reads the resource
EnsureSizeAlways(F, font_name, size) ==
    LET ref == F.fonts[font_name]
    IN  [F EXCEPT !.reads = Append(@, <<font_name, size>>),
                  !.objs[ref] = (size :> truetype(F, font_name, size)) @@
                                [k \in DOMAIN @ \ {size} |-> @[k]]]

\* lines 63-64
EnsureSize(F, font_name, size) ==
    LET ref == F.fonts[font_name]
    IN  IF size \notin DOMAIN F.objs[ref]
        THEN [F EXCEPT !.reads = Append(@, <<font_name, size>>),
                       !.objs[ref] = (size :> truetype(F, font_name, size)) @@ @]
        ELSE F

\* the class state after get_font(font_name, size)
FontsAfter(F, font_name, size) == EnsureSize(EnsureName(F, font_name), font_name, size)

\* the handle get_font(font_name, size) returns (line 66)
get_font(F, font_name, size) ==
    LET G == FontsAfter(F, font_name, size)
    IN  G.objs[G.fonts[font_name]][size]

---------------------------------------------------------------------------
(* TextArea.__post_init__ *)

\* the width a line may take: box width minus edge padding on both sides
Usable(s) == s.supersampled_width - (2 * EDGE_PADDING * s.supersampling_factor)

\* _add_text_line(text, width), lines 123-131
add_text_line(s, text, width) ==
    LET text_x == IF s.is_text_centered
                  THEN int(s.supersampled_width - width, 2)
                  ELSE s.supersampling_factor * EDGE_PADDING
        t == [s EXCEPT !.text_lines = Append(@, [text |-> text, text_x |-> text_x])]
    IN  IF width > t.text_width THEN [t EXCEPT !.text_width = width] ELSE t

\* lines 185-187
RestoreScale(s) ==
    [s EXCEPT !.width = int(s.supersampled_width, s.supersampling_factor),
              !.height = int(s.supersampled_height, s.supersampling_factor),
              !.text_width = int(s.text_width, s.supersampling_factor)]

\* lines 110-122: the attributes set before the layout branches
TextAreaBegin(a, F) ==
    LET font == get_font(F, a.font_name, a.supersampling_factor * a.font_size)
    IN  [kind |-> "TextArea",
         text |-> a.text, width |-> a.width, height |-> a.height,
         screen_x |-> a.screen_x, screen_y |-> a.screen_y,
         font_name |-> a.font_name, font_size |-> a.font_size,
         is_text_centered |-> a.is_text_centered,
         supersampling_factor |-> a.supersampling_factor,
         font |-> font,
         supersampled_width |-> a.supersampling_factor * a.width,
         supersampled_height |-> a.supersampling_factor * a.height,
         line_spacing |-> int(a.font_size, 4),
         text_height |-> getsize(font, a.text).h,
         text_lines |-> <<>>,
         text_width |-> 0]

\* lines 135-142: the whole text on one line
SingleLine(s) ==
    LET t == add_text_line(s, s.text, getsize(s.font, s.text).w)
    IN  IF t.height = 0
        THEN SetAttr([t EXCEPT !.supersampled_height = t.text_height], "text_y", 0)
        ELSE SetAttr(t, "text_y",
                     int((t.supersampling_factor * t.supersampled_height) - t.text_height, 2))

\* line 174
TotalTextHeight(s) ==
    s.text_height * Len(s.text_lines) + s.line_spacing * (Len(s.text_lines) - 1)

\* the condition of line 175
Overflows(s) ==
    /\ s.height > 0
    /\ TotalTextHeight(s) >
          s.supersampled_height + 2 * COMPONENT_PADDING * s.supersampling_factor

\* lines 178-181
Stack(s) ==
    LET t == [s EXCEPT !.supersampled_height = TotalTextHeight(s)]
    IN  SetAttr(t, "text_y", int(t.supersampled_height - TotalTextHeight(s), 2))

\* a fitter that returns the first candidate that fits
binary_len_search_first_fit(s, ws, lo, hi) ==
    LET mid == Ceil2(hi + lo)
        idx == IF mid = 0 THEN 1 ELSE mid
        w   == getsize(s.font, Join(Prefix(ws, idx))).w
    IN  IF w > Usable(s)
        THEN [returns |-> FALSE, min_index |-> lo,
              max_index |-> IF lo + 1 = idx THEN idx - 1 ELSE idx]
        ELSE [returns |-> TRUE, index |-> idx, tw |-> w]

\* one activation of _binary_len_search(lo, hi), lines 148-166: either it
\* returns (index, tw) or it calls itself with (lo, hi) replaced
binary_len_search(s, ws, lo, hi) ==
    LET mid == Ceil2(hi + lo)
        idx == IF mid = 0 THEN 1 ELSE mid
        w   == getsize(s.font, Join(Prefix(ws, idx))).w
    IN  IF w > Usable(s)
        THEN [returns |-> FALSE, min_index |-> lo,
              max_index |-> IF lo + 1 = idx THEN idx - 1 ELSE idx]
        ELSE IF idx = hi
        THEN [returns |-> TRUE, index |-> idx, tw |-> w]
        ELSE [returns |-> FALSE, min_index |-> idx, max_index |-> hi]

TextAreaArgs ==
    [text : Texts, width : Widths, height : Heights,
     screen_x : ScreenXs, screen_y : ScreenYs,
     font_name : {BODY_FONT_NAME}, font_size : FontSizes,
     is_text_centered : BOOLEAN, supersampling_factor : SupersamplingFactors]

\* TextArea(...) up to the end of the one-line branch or the start of the loop
TextAreaPostInit ==
    /\ pc = "new"
    /\ \E a \in TextAreaArgs :
         LET s == TextAreaBegin(a, Fonts)
         IN  /\ args' = a
             /\ Fonts' = FontsAfter(Fonts, a.font_name, a.supersampling_factor * a.font_size)
             /\ IF getsize(s.font, s.text).w < Usable(s)
                THEN /\ self' = RestoreScale(SingleLine(s))
                     /\ built' = self'
                     /\ pc' = "done"
                     /\ words' = <<>>
                ELSE /\ self' = s
                     /\ built' = built
                     /\ pc' = "while"
                     /\ words' = Split(a.text)
    /\ UNCHANGED <<min_index, max_index, index, tw, depth, canvas, fontVars, centering>>

\* line 169-170: another pass of the loop calls the fitter
WhileWords ==
    /\ pc = "while"
    /\ words # <<>>
    /\ pc' = "search"
    /\ min_index' = 0
    /\ max_index' = Len(words)
    /\ depth' = 1
    /\ UNCHANGED <<self, args, built, words, index, tw, canvas, Fonts, fontVars, centering>>

\* a recursive call of the fitter (lines 160, 166)
SearchRecurse ==
    /\ pc = "search"
    /\ LET r == binary_len_search(self, words, min_index, max_index)
       IN  /\ ~r.returns
           /\ depth < RecursionLimit
           /\ min_index' = r.min_index
           /\ max_index' = r.max_index
           /\ depth' = depth + 1
    /\ UNCHANGED <<pc, self, args, built, words, index, tw, canvas, Fonts, fontVars, centering>>

\* the recursion exhausts the interpreter's stack
SearchRecursionError ==
    /\ pc = "search"
    /\ ~binary_len_search(self, words, min_index, max_index).returns
    /\ depth >= RecursionLimit
    /\ pc' = "RecursionError"
    /\ UNCHANGED <<self, args, built, words, min_index, max_index, index, tw, depth, canvas, Fonts, fontVars, centering>>

\* the fitter converges (line 163) and every frame returns to line 170
SearchReturn ==
    /\ pc = "search"
    /\ LET r == binary_len_search(self, words, min_index, max_index)
       IN  /\ r.returns
           /\ index' = r.index
           /\ tw' = r.tw
    /\ pc' = "fitted"
    /\ depth' = 0
    /\ UNCHANGED <<self, args, built, words, min_index, max_index, canvas, Fonts, fontVars, centering>>

\* lines 171-172: emit the fitted prefix as a line, go on with the rest
EmitLine ==
    /\ pc = "fitted"
    /\ self' = add_text_line(self, Join(Prefix(words, index)), tw)
    /\ words' = DropWords(words, index)
    /\ pc' = "while"
    /\ UNCHANGED <<args, built, min_index, max_index, index, tw, depth, canvas, Fonts, fontVars, centering>>

\* lines 174-176: the stacked lines do not fit the fixed height
RaiseTextOverflow ==
    /\ pc = "while"
    /\ words = <<>>
    /\ Overflows(self)
    /\ pc' = "TextOverflowError"
    /\ UNCHANGED <<self, args, built, words, min_index, max_index, index, tw, depth, canvas, Fonts, fontVars, centering>>

\* lines 177-187: construction completes
FinishMultiLine ==
    /\ pc = "while"
    /\ words = <<>>
    /\ ~Overflows(self)
    /\ self' = RestoreScale(Stack(self))
    /\ built' = self'
    /\ pc' = "done"
    /\ UNCHANGED <<args, words, min_index, max_index, index, tw, depth, canvas, Fonts, fontVars, centering>>

---------------------------------------------------------------------------
(* TextArea.render *)

\* the draw.text calls of lines 201-203 on `surface`, the first at height y0
TextLineCalls(s, surface, y0) ==
    [i \in 1..Len(s.text_lines) |->
        [op |-> "text", surface |-> surface,
         x |-> s.text_lines[i].text_x,
         y |-> y0 + (i - 1) * (s.text_height + s.line_spacing),
         text |-> s.text_lines[i].text]]

\* the drawing calls of TextArea.render, in order
TextAreaDraw(s) ==
    IF s.supersampling_factor > 1
    THEN <<[op |-> "new", surface |-> "img",
            width |-> s.supersampled_width, height |-> s.supersampled_height]>>
         \o TextLineCalls(s, "img", s.text_y)
         \o <<[op |-> "resize", surface |-> "img", width |-> s.width, height |-> s.height],
              [op |-> "paste", surface |-> "canvas", image |-> "img",
               x |-> s.screen_x, y |-> s.screen_y]>>
    ELSE TextLineCalls(s, "canvas", s.text_y + s.screen_y)

\* the TextArea's attributes after render(): none is written
TextAreaAfterRender(s) == s

TextAreaRender ==
    /\ pc = "done"
    /\ self.kind = "TextArea"
    /\ canvas' = TextAreaDraw(self)
    /\ self' = TextAreaAfterRender(self)
    /\ UNCHANGED <<pc, args, built, words, min_index, max_index, index, tw, depth,
                   Fonts, fontVars, centering>>

---------------------------------------------------------------------------
(* calc_text_centering *)

\* lines 33-35: getoffset, getbbox(anchor='lt') and getmetrics of the font
measure(font, text) ==
    [offset_x  |-> IF text # <<>> /\ Head(text) = "b" THEN 1 ELSE 0,
     offset_y  |-> font.size \div 4,
     box_right |-> TextAdvance(text, font.size),
     ascent    |-> font.size]

\* a centering that forgets the bearing correction
calc_text_centering_no_bearing(m, is_text_centered, box_width, box_height, start_x, start_y) ==
    LET text_x == IF is_text_centered
                  THEN int(box_width - m.box_right, 2)
                  ELSE COMPONENT_PADDING
        text_y == int(box_height - m.ascent, 2)
    IN  [x |-> start_x + text_x, y |-> start_y + text_y]

\* lines 42-49, on the metrics m measured in lines 33-35
calc_text_centering(m, is_text_centered, box_width, box_height, start_x, start_y) ==
    LET text_x == IF is_text_centered
                  THEN int(box_width - (m.box_right - m.offset_x), 2) - m.offset_x
                  ELSE COMPONENT_PADDING
        text_y == int(box_height - (m.ascent - m.offset_y), 2) - m.offset_y
    IN  [x |-> start_x + text_x, y |-> start_y + text_y]

CenteringInputs ==
    [offset_x : {-1, 0, 1}, offset_y : {0, 3}, box_right : {10, 41, 60},
     ascent : {14, 19, 50}, is_text_centered : BOOLEAN,
     box_width : {40, 41}, box_height : {20, 21},
     start_x : {0, 5}, start_y : {0, 3}]

CalcTextCentering ==
    /\ \E a \in CenteringInputs :
         centering' = [called |-> TRUE, args |-> a,
                       out |-> calc_text_centering(a, a.is_text_centered, a.box_width,
                                                   a.box_height, a.start_x, a.start_y)]
    /\ UNCHANGED <<widgetVars, Fonts, fontVars>>

---------------------------------------------------------------------------
(* Button and IconButton *)

BUTTON_FONT_SIZE == 18

TOP_NAV_TITLE_FONT_SIZE == 19

\* Image.open(icon_url + ".png") / Image.open(icon_url + "_selected.png")
Image(icon_name, selected) ==
    [file |-> icon_name, selected |-> selected,
     width |-> IF icon_name = "back" THEN 24 ELSE 27]

\* "if self.text:" and "if self.icon_name:" (None and "" are both false)
HasText(s) == s.text # <<>>

HasIcon(s) == s.icon_name # "None"

\* the dataclass defaults of Button (lines 223-234)
ButtonDefaults ==
    [icon_name |-> "None", icon_y_offset |-> 2, is_icon_inline |-> TRUE,
     text_y_offset |-> 0, background_color |-> "#2c2c2c", selected_color |-> "orange",
     font_name |-> BUTTON_FONT_NAME, font_size |-> BUTTON_FONT_SIZE,
     font_color |-> "#fcfcfc", selected_font_color |-> "black",
     is_text_centered |-> TRUE, is_selected |-> FALSE]

\* the defaults IconButton overrides (lines 305-306)
IconButtonDefaults == [is_icon_inline |-> FALSE, icon_y_offset |-> 8] @@ ButtonDefaults

\* lines 257-275: the icon and its geometry
ButtonIcon(s) ==
    LET icon_padding == 8
        icon == Image(s.icon_name, FALSE)
        t == SetAttr(SetAttr(s, "icon", icon), "icon_selected", Image(s.icon_name, TRUE))
    IN  IF s.is_icon_inline
        THEN LET u == IF HasText(t)
                      THEN IF t.is_text_centered
                           THEN [t EXCEPT !.text_x = @ + int(icon.width + icon_padding, 2)]
                           ELSE [t EXCEPT !.text_x = @ + icon.width + icon_padding]
                      ELSE t
             IN  SetAttr(SetAttr(u, "icon_x", u.text_x - (icon.width + icon_padding)),
                         "icon_y", u.text_y + u.icon_y_offset)
        ELSE SetAttr(SetAttr(t, "icon_x", t.screen_x + int(t.width - icon.width, 2)),
                     "icon_y", t.screen_y + t.icon_y_offset)

\* Button.__post_init__ (lines 237-275) on the arguments a; kind names the class
ButtonPostInit(kind, a, F) ==
    LET font == get_font(F, a.font_name, a.font_size)
        s == SetAttr(SetAttr(a, "kind", kind), "font", font)
        c == calc_text_centering(measure(font, s.text), s.is_text_centered, s.width,
                                 s.height - s.text_y_offset,
                                 s.screen_x, s.screen_y + s.text_y_offset)
        t == IF HasText(s)
             THEN SetAttr(SetAttr(s, "text_x", c.x), "text_y", c.y)
             ELSE IF HasIcon(s) /\ s.is_icon_inline
             THEN SetAttr(SetAttr(s, "text_x", s.screen_x + int(s.width, 2)),
                          "text_y", s.screen_y + int(s.height, 2))
             ELSE s
    IN  IF HasIcon(t) THEN ButtonIcon(t) ELSE t

\* the drawing calls of Button.render (lines 279-295), in order
ButtonDraw(s) ==
    <<[op |-> "rounded_rectangle", surface |-> "canvas",
       x |-> s.screen_x, y |-> s.screen_y,
       x1 |-> s.screen_x + s.width, y1 |-> s.screen_y + s.height,
       fill |-> IF s.is_selected THEN s.selected_color ELSE s.background_color,
       radius |-> COMPONENT_PADDING]>>
    \o (IF HasText(s)
        THEN <<[op |-> "text", surface |-> "canvas", x |-> s.text_x, y |-> s.text_y,
                text |-> s.text,
                fill |-> IF s.is_selected THEN s.selected_font_color ELSE s.font_color]>>
        ELSE <<>>)
    \o (IF HasIcon(s)
        THEN <<[op |-> "paste", surface |-> "canvas",
                image |-> IF s.is_selected THEN s.icon_selected ELSE s.icon,
                x |-> s.icon_x, y |-> s.icon_y]>>
        ELSE <<>>)

\* the Button's attributes after render(): none is written
ButtonAfterRender(s) == s

ButtonTexts == {<<>>, <<"a">>, <<"b", "a">>}

ButtonGiven ==
    [text : ButtonTexts, screen_x : ScreenXs, screen_y : ScreenYs,
     width : {60, 101}, height : {32}, icon_name : {"None", "back"},
     is_icon_inline : BOOLEAN, text_y_offset : {0, 4},
     is_text_centered : BOOLEAN, is_selected : BOOLEAN]

IconButtonGiven ==
    [text : ButtonTexts, screen_x : ScreenXs, screen_y : ScreenYs,
     width : {60, 101}, height : {32}, icon_name : {"back", "power"},
     is_selected : BOOLEAN]

\* Button(...)
ButtonNew ==
    /\ pc = "new"
    /\ \E g \in ButtonGiven :
         /\ args' = g @@ ButtonDefaults
         /\ self' = ButtonPostInit("Button", args', Fonts)
         /\ Fonts' = FontsAfter(Fonts, args'.font_name, args'.font_size)
    /\ built' = self'
    /\ pc' = "done"
    /\ UNCHANGED <<words, min_index, max_index, index, tw, depth, canvas, fontVars, centering>>

\* IconButton(...)
IconButtonNew ==
    /\ pc = "new"
    /\ \E g \in IconButtonGiven :
         /\ args' = g @@ IconButtonDefaults
         /\ self' = ButtonPostInit("IconButton", args', Fonts)
         /\ Fonts' = FontsAfter(Fonts, args'.font_name, args'.font_size)
    /\ built' = self'
    /\ pc' = "done"
    /\ UNCHANGED <<words, min_index, max_index, index, tw, depth, canvas, fontVars, centering>>

\* Button.render(), inherited by IconButton
ButtonRender ==
    /\ pc = "done"
    /\ self.kind \in {"Button", "IconButton"}
    /\ canvas' = ButtonDraw(self)
    /\ self' = ButtonAfterRender(self)
    /\ UNCHANGED <<pc, args, built, words, min_index, max_index, index, tw, depth,
                   Fonts, fontVars, centering>>

\* the caller moves the input focus: is_selected is assigned from outside
ToggleSelected ==
    /\ pc = "done"
    /\ self.kind \in {"Button", "IconButton", "TopNav"}
    /\ self' = [self EXCEPT !.is_selected = ~@]
    /\ UNCHANGED <<pc, args, built, words, min_index, max_index, index, tw, depth, canvas,
                   Fonts, fontVars, centering>>

---------------------------------------------------------------------------
(* TopNav *)

\* the IconButton(...) calls of lines 330-338 and 341-349
NavButtonArgs(icon_name, screen_x) ==
    [text |-> <<>>, icon_name |-> icon_name, screen_x |-> screen_x,
     screen_y |-> EDGE_PADDING, width |-> 32, height |-> 32, icon_y_offset |-> 4]
    @@ IconButtonDefaults

\* the Fonts class state after TopNav.__post_init__
TopNavFonts(a, F) ==
    LET F1 == FontsAfter(F, a.font_name, a.font_size)
        F2 == IF a.show_back_button
              THEN FontsAfter(F1, BUTTON_FONT_NAME, BUTTON_FONT_SIZE) ELSE F1
    IN  IF a.show_power_button
        THEN FontsAfter(F2, BUTTON_FONT_NAME, BUTTON_FONT_SIZE) ELSE F2

\* TopNav.__post_init__ (lines 324-372)
TopNavPostInit(a, F) ==
    LET button_width == 32
        font == get_font(F, a.font_name, a.font_size)
        F1 == FontsAfter(F, a.font_name, a.font_size)
        s  == SetAttr(SetAttr(a, "kind", "TopNav"), "font", font)
        t  == IF a.show_back_button
              THEN SetAttr(s, "back_button",
                           ButtonPostInit("IconButton",
                                          NavButtonArgs("back", EDGE_PADDING), F1))
              ELSE s
        F2 == IF a.show_back_button
              THEN FontsAfter(F1, BUTTON_FONT_NAME, BUTTON_FONT_SIZE) ELSE F1
        u  == IF a.show_power_button
              THEN SetAttr(t, "power_button",
                           ButtonPostInit("IconButton",
                                          NavButtonArgs("power",
                                              a.width - button_width - EDGE_PADDING), F2))
              ELSE t
        c  == calc_text_centering(measure(font, a.text), TRUE, a.width, a.height, 0, 0)
    IN  SetAttr(SetAttr(u, "text_x", c.x), "text_y", c.y)

\* the TopNav's attributes after render(): lines 389 and 392 hand the bar's
\* selected flag to its buttons
TopNavAfterRenderShifted(s) ==
    LET t == IF s.show_back_button
             THEN [s EXCEPT !.back_button.is_selected = s.is_selected,
                            !.text_x = IF s.is_selected THEN @ + s.back_button.width ELSE @]
             ELSE s
    IN  IF s.show_power_button
        THEN [t EXCEPT !.power_button.is_selected = s.is_selected] ELSE t

\* the TopNav's attributes after render(): lines 389 and 392 hand the bar's
\* selected flag to its buttons, nothing else is written
TopNavAfterRender(s) ==
    LET t == IF s.show_back_button
             THEN [s EXCEPT !.back_button.is_selected = s.is_selected] ELSE s
    IN  IF s.show_power_button
        THEN [t EXCEPT !.power_button.is_selected = s.is_selected] ELSE t

\* the drawing calls of TopNav.render (lines 387-395), in order
TopNavDraw(s) ==
    LET t == TopNavAfterRender(s)
    IN  <<[op |-> "rectangle", surface |-> "canvas", x |-> 0, y |-> 0,
           x1 |-> s.width, y1 |-> s.height, fill |-> s.background_color]>>
        \o (IF s.show_back_button THEN ButtonDraw(t.back_button) ELSE <<>>)
        \o (IF s.show_power_button THEN ButtonDraw(t.power_button) ELSE <<>>)
        \o <<[op |-> "text", surface |-> "canvas", x |-> s.text_x, y |-> s.text_y,
              text |-> s.text, fill |-> s.font_color]>>

\* the dataclass defaults of TopNav (lines 315-321)
TopNavDefaults ==
    [background_color |-> "black", font_name |-> "OpenSans-SemiBold",
     font_size |-> TOP_NAV_TITLE_FONT_SIZE, font_color |-> "#fcfcfc",
     show_back_button |-> TRUE, show_power_button |-> FALSE, is_selected |-> FALSE]

TopNavGiven ==
    [text : {<<"a">>, <<"b", "a">>}, width : {240}, height : {48},
     show_back_button : BOOLEAN, show_power_button : BOOLEAN, is_selected : BOOLEAN]

\* TopNav(...)
TopNavNew ==
    /\ pc = "new"
    /\ \E g \in TopNavGiven :
         /\ args' = g @@ TopNavDefaults
         /\ self' = TopNavPostInit(args', Fonts)
         /\ Fonts' = TopNavFonts(args', Fonts)
    /\ built' = self'
    /\ pc' = "done"
    /\ UNCHANGED <<words, min_index, max_index, index, tw, depth, canvas, fontVars, centering>>

\* TopNav.render()
TopNavRender ==
    /\ pc = "done"
    /\ self.kind = "TopNav"
    /\ canvas' = TopNavDraw(self)
    /\ self' = TopNavAfterRender(self)
    /\ UNCHANGED <<pc, args, built, words, min_index, max_index, index, tw, depth,
                   Fonts, fontVars, centering>>

\* TopNav.selected_button (lines 375-383)
selected_button(s) ==
    IF ~s.is_selected THEN "None"
    ELSE IF s.show_back_button THEN "RET_CODE__BACK_BUTTON"
    ELSE IF s.show_power_button THEN "RET_CODE__POWER_BUTTON"
    ELSE "None"

---------------------------------------------------------------------------
(* Fonts.get_font called from the program, one call at a time *)

\* get_font calls a run makes at most
MaxCalls == 4

FontNames == {BODY_FONT_NAME, BUTTON_FONT_NAME}

FontPixelSizes == {17, 18, 34}

\* the first handle handed out for a key is remembered in `result.first`
Remember(first, key, font) ==
    IF key \in DOMAIN first THEN first ELSE (key :> font) @@ first

\* one whole get_font(font_name, size) call
GetFont ==
    /\ calls < MaxCalls
    /\ \E font_name \in FontNames, size \in FontPixelSizes :
         LET font == get_font(Fonts, font_name, size)
         IN  /\ Fonts' = FontsAfter(Fonts, font_name, size)
             /\ result' = [called |-> TRUE, font_name |-> font_name, size |-> size,
                           font |-> font,
                           reads |-> Len(Fonts'.reads) - Len(Fonts.reads),
                           first |-> Remember(result.first, <<font_name, size>>, font)]
    /\ calls' = calls + 1
    /\ UNCHANGED <<widgetVars, threads, centering>>

---------------------------------------------------------------------------
(* Fonts.get_font called from several threads: each dictionary access of   *)
(* lines 60-66 is one step, and the interpreter may switch threads between *)
(* any two of them.                                                        *)

Threads == {"t1", "t2"}

\* get_font calls the threads start at most, all together
MaxThreadCalls == 3

ThreadSizes == {17, 18}

Idle == [pc |-> "idle"]

At(t, label) == threads[t].pc = label

Goto(t, label) == threads' = [threads EXCEPT ![t].pc = label]

\* a thread enters get_font(font_name, size)
Call(t) ==
    /\ At(t, "idle")
    /\ calls < MaxThreadCalls
    /\ \E size \in ThreadSizes :
         threads' = [threads EXCEPT ![t] = [pc |-> "L60", font_name |-> BODY_FONT_NAME,
                                            size |-> size]]
    /\ calls' = calls + 1
    /\ UNCHANGED <<widgetVars, Fonts, result, centering>>

\* line 60: if font_name not in cls.fonts
L60(t) ==
    /\ At(t, "L60")
    /\ IF threads[t].font_name \notin DOMAIN Fonts.fonts THEN Goto(t, "L61") ELSE Goto(t, "L63")
    /\ UNCHANGED <<widgetVars, Fonts, calls, result, centering>>

\* line 61: cls.fonts[font_name] = {}
L61(t) ==
    /\ At(t, "L61")
    /\ Fonts' = [Fonts EXCEPT !.objs = Append(@, <<>>),
                              !.fonts = (threads[t].font_name :> (Len(Fonts.objs) + 1)) @@ @]
    /\ Goto(t, "L63")
    /\ UNCHANGED <<widgetVars, calls, result, centering>>

\* line 63, 64, 66: the subscript cls.fonts[font_name] yields a dict object
Subscript(t, from, to) ==
    /\ At(t, from)
    /\ threads' = [threads EXCEPT ![t] = SetAttr([@ EXCEPT !.pc = to], "ref",
                                                 Fonts.fonts[threads[t].font_name])]
    /\ UNCHANGED <<widgetVars, Fonts, calls, result, centering>>

L63(t) == Subscript(t, "L63", "L63in")

\* line 63: if size not in <that dict>
L63in(t) ==
    /\ At(t, "L63in")
    /\ IF threads[t].size \notin DOMAIN Fonts.objs[threads[t].ref]
       THEN Goto(t, "L64") ELSE Goto(t, "L66")
    /\ UNCHANGED <<widgetVars, Fonts, calls, result, centering>>

\* line 64, right-hand side: ImageFont.truetype(...) reads the font resource
L64(t) ==
    /\ At(t, "L64")
    /\ threads' = [threads EXCEPT ![t] =
                      SetAttr([@ EXCEPT !.pc = "L64ref"], "font",
                              truetype(Fonts, threads[t].font_name, threads[t].size))]
    /\ Fonts' = [Fonts EXCEPT !.reads = Append(@, <<threads[t].font_name, threads[t].size>>)]
    /\ UNCHANGED <<widgetVars, calls, result, centering>>

L64ref(t) == Subscript(t, "L64ref", "L64store")

\* line 64: <that dict>[size] = <the loaded font>
L64store(t) ==
    /\ At(t, "L64store")
    /\ Fonts' = [Fonts EXCEPT !.objs[threads[t].ref] =
                                 (threads[t].size :> threads[t].font) @@ @]
    /\ Goto(t, "L66")
    /\ UNCHANGED <<widgetVars, calls, result, centering>>

L66(t) == Subscript(t, "L66", "L66get")

\* line 66: return <that dict>[size], or KeyError
L66get(t) ==
    /\ At(t, "L66get")
    /\ threads[t].size \in DOMAIN Fonts.objs[threads[t].ref]
    /\ LET font == Fonts.objs[threads[t].ref][threads[t].size]
       IN  result' = [called |-> TRUE, font_name |-> threads[t].font_name,
                      size |-> threads[t].size, font |-> font, reads |-> 0,
                      first |-> Remember(result.first,
                                         <<threads[t].font_name, threads[t].size>>, font)]
    /\ threads' = [threads EXCEPT ![t] = Idle]
    /\ UNCHANGED <<widgetVars, Fonts, calls, centering>>

L66KeyError(t) ==
    /\ At(t, "L66get")
    /\ threads[t].size \notin DOMAIN Fonts.objs[threads[t].ref]
    /\ Goto(t, "KeyError")
    /\ UNCHANGED <<widgetVars, Fonts, calls, result, centering>>

---------------------------------------------------------------------------
(* Specifications *)

Init ==
    /\ pc = "new"
    /\ self = [kind |-> "none"]
    /\ args = [kind |-> "none"]
    /\ built = [kind |-> "none"]
    /\ words = <<>>
    /\ min_index = 0
    /\ max_index = 0
    /\ index = 0
    /\ tw = 0
    /\ depth = 0
    /\ canvas = <<>>
    /\ Fonts = NoFonts
    /\ threads = [t \in Threads |-> Idle]
    /\ calls = 0
    /\ result = [called |-> FALSE, first |-> <<>>]
    /\ centering = [called |-> FALSE]

\* a component is constructed, then rendered and (de)selected any number of times
Next ==
    \/ TextAreaPostInit
    \/ WhileWords
    \/ SearchRecurse
    \/ SearchRecursionError
    \/ SearchReturn
    \/ EmitLine
    \/ RaiseTextOverflow
    \/ FinishMultiLine
    \/ TextAreaRender
    \/ ButtonNew
    \/ IconButtonNew
    \/ ButtonRender
    \/ TopNavNew
    \/ TopNavRender
    \/ ToggleSelected

Spec == Init /\ [][Next]_vars

\* calc_text_centering applied to any metrics and box
NextCenter == CalcTextCentering

SpecCenter == Init /\ [][NextCenter]_vars

\* get_font called sequentially
NextFonts == GetFont

SpecFonts == Init /\ [][NextFonts]_vars

\* get_font called from several threads
NextThreads ==
    \E t \in Threads :
        \/ Call(t)
        \/ L60(t)
        \/ L61(t)
        \/ L63(t)
        \/ L63in(t)
        \/ L64(t)
        \/ L64ref(t)
        \/ L64store(t)
        \/ L66(t)
        \/ L66get(t)
        \/ L66KeyError(t)

SpecThreads == Init /\ [][NextThreads]_vars

---------------------------------------------------------------------------
(* Properties *)

IsTextArea == self.kind = "TextArea"

\* width of the first k of the words still to place, joined by single spaces
JoinedWidth(k) == getsize(self.font, Join(Prefix(words, k))).w

\* the texts of the lines produced so far, in order
LineTexts == [i \in 1..Len(self.text_lines) |-> self.text_lines[i].text]

\* the recursion limit of the model is reached only by a search that cannot
\* end: the first word still to place is wider than the usable width
RecursionIsRunaway ==
    /\ pc = "RecursionError" => JoinedWidth(1) > Usable(self)
    /\ (pc = "search" /\ JoinedWidth(1) <= Usable(self)) => depth <= Len(words) + 2

\* C1: line wrapping terminates for every text and width: a word wider than
\* the usable width is still returned with a word count >= 1 and emitted
\* alone, the fitter never recurses without end, and with auto height the
\* construction completes with no exception.
C1_WrappingTerminates ==
    IsTextArea =>
        /\ pc # "RecursionError"
        /\ pc = "fitted" => index >= 1
        /\ args.height = 0 => pc \notin {"RecursionError", "TextOverflowError"}

\* C2: joining the produced lines with single spaces gives back the
\* space-delimited word sequence of the input text.
C2_WordsPreserved ==
    (IsTextArea /\ pc = "done") => Split(Join(LineTexts)) = Split(args.text)

C2_Witness ==
    /\ IsTextArea /\ pc = "done"
    /\ Len(self.text_lines) = 2
    /\ Len(Split(args.text)) = 3

\* C3: every line the fitter returns is the longest prefix, of at least one
\* word, of the words still to place whose joined width is <= the usable
\* width; a produced line wider than the usable width would have to be a
\* single word.
C3_LongestFittingPrefix ==
    /\ (IsTextArea /\ pc = "fitted") =>
          /\ index >= 1 /\ index <= Len(words)
          /\ tw = JoinedWidth(index)
          /\ tw <= Usable(self)
          /\ \A k \in 1..Len(words) : JoinedWidth(k) <= Usable(self) => k <= index
    /\ (IsTextArea /\ pc \in {"while", "search", "fitted"}) =>
          \A i \in 1..Len(self.text_lines) :
              getsize(self.font, self.text_lines[i].text).w > Usable(self)
                  => Len(Split(self.text_lines[i].text)) = 1

C3_Witness ==
    /\ IsTextArea /\ pc = "fitted"
    /\ Len(words) = 3
    /\ index = 2
    /\ Len(self.text_lines) = 0

\* C4: the text-overflow error is raised if and only if a fixed height was
\* declared and the stacked line height exceeds it, for one line and for
\* several, and never with auto height.
C4_OverflowIff ==
    (IsTextArea /\ pc \in {"done", "TextOverflowError"}) =>
        ((pc = "TextOverflowError") <=>
            (args.height > 0
             /\ TotalTextHeight(self) > args.supersampling_factor * args.height))

\* C8: after construction text_y is half of (final height at render scale
\* minus the stacked text height), and a fixed height that passed the
\* overflow check is the final height.
C8_BlockCentered ==
    (IsTextArea /\ pc = "done") =>
        /\ self.text_y = int(self.supersampled_height - TotalTextHeight(self), 2)
        /\ args.height > 0 => self.height = args.height

\* the draw.text calls among the drawing calls of the last render
TextCalls == SelectSeq(canvas, LAMBDA c : c.op = "text")

\* where the surface a call draws on ends up on the screen, at render scale
SurfaceOrigin(c) ==
    IF c.surface = "canvas" THEN [x |-> 0, y |-> 0]
    ELSE LET p == CHOOSE q \in {canvas[j] : j \in 1..Len(canvas)} : q.op = "paste"
         IN  [x |-> self.supersampling_factor * p.x, y |-> self.supersampling_factor * p.y]

\* C9: render puts line i on the screen at (screen_x + x offset of line i,
\* screen_y + text_y + i * (line height + line spacing)), drawn directly when
\* supersampling_factor is 1 and through the composited buffer otherwise
\* (coordinates at render scale).
C9_LinesAtScreenCoordinates ==
    (IsTextArea /\ pc = "done" /\ canvas # <<>>) =>
        /\ Len(TextCalls) = Len(self.text_lines)
        /\ \A i \in 1..Len(TextCalls) :
              LET c == TextCalls[i]
                  f == self.supersampling_factor
              IN  /\ SurfaceOrigin(c).x + c.x = f * self.screen_x + self.text_lines[i].text_x
                  /\ SurfaceOrigin(c).y + c.y =
                        f * self.screen_y + self.text_y
                        + (i - 1) * (self.text_height + self.line_spacing)

\* a component without its selected flags, its buttons' included
Frozen(w) ==
    [f \in DOMAIN w \ {"is_selected"} |->
        IF f \in {"back_button", "power_button"}
        THEN [g \in DOMAIN w[f] \ {"is_selected"} |-> w[f][g]]
        ELSE w[f]]

\* C10: after construction, render() calls and is_selected toggles leave
\* every attribute of the component, other than selected flags, as the
\* constructor computed it.
C10_LayoutFrozen ==
    pc = "done" => Frozen(self) = Frozen(built)

C10_Witness ==
    /\ pc = "done"
    /\ self.kind = "TopNav"
    /\ canvas # <<>>
    /\ self.show_back_button
    /\ ~built.is_selected
    /\ self.is_selected
    /\ self.back_button.is_selected

\* the handle the cache holds for a key, if any
IsCached(key) ==
    /\ key[1] \in DOMAIN Fonts.fonts
    /\ key[2] \in DOMAIN Fonts.objs[Fonts.fonts[key[1]]]

Cached(key) == Fonts.objs[Fonts.fonts[key[1]]][key[2]]

ReadOncePerKey ==
    \A i, j \in 1..Len(Fonts.reads) : Fonts.reads[i] = Fonts.reads[j] => i = j

\* C5: under every interleaving of get_font calls from several threads each
\* key is read and inserted at most once, an entry once handed out is never
\* lost or replaced, and no call fails.
C5_SerializedInsertion ==
    /\ ReadOncePerKey
    /\ \A t \in Threads : threads[t].pc # "KeyError"
    /\ \A key \in DOMAIN result.first : IsCached(key) /\ Cached(key) = result.first[key]

\* C6: in sequential use the resource of a key is read by the first call for
\* it only, every call returns the handle the first call for its key
\* returned, which stays in the cache, and different keys have different
\* handles.
C6_ReadByFirstCallOnly ==
    /\ ReadOncePerKey
    /\ Len(Fonts.reads) = Cardinality(DOMAIN result.first)
    /\ \A key \in DOMAIN result.first : IsCached(key) /\ Cached(key) = result.first[key]
    /\ result.called => result.font = result.first[<<result.font_name, result.size>>]
    /\ \A k1, k2 \in DOMAIN result.first : k1 # k2 => result.first[k1].id # result.first[k2].id

C6_Witness ==
    /\ result.called
    /\ result.reads = 0
    /\ Len(Fonts.reads) = 2
    /\ Fonts.reads[1][1] = Fonts.reads[2][1]
    /\ result.font_name = Fonts.reads[1][1]

\* the numerators of the two halvings in calc_text_centering
NumeratorX == centering.args.box_width - (centering.args.box_right - centering.args.offset_x)

NumeratorY == centering.args.box_height - (centering.args.ascent - centering.args.offset_y)

\* C7 as stated: both halvings round down (floor), negative numerators included
C7_Floor ==
    centering.called =>
        /\ centering.out.x = centering.args.start_x
              + (IF centering.args.is_text_centered
                 THEN (NumeratorX \div 2) - centering.args.offset_x
                 ELSE COMPONENT_PADDING)
        /\ centering.out.y = centering.args.start_y
              + (NumeratorY \div 2) - centering.args.offset_y

\* q is n / 2 rounded toward zero
HalfTowardZero(n, q) ==
    IF n >= 0 THEN 2 * q <= n /\ n < 2 * q + 2 ELSE 2 * q - 2 < n /\ n <= 2 * q

\* C7 amended: both halvings round toward zero, which is floor for a
\* numerator >= 0 and one more than floor for a negative odd numerator; x is
\* origin_x + the padding constant when the text is not centered.
C7_TowardZero ==
    centering.called =>
        /\ IF centering.args.is_text_centered
           THEN HalfTowardZero(NumeratorX,
                    centering.out.x - centering.args.start_x + centering.args.offset_x)
           ELSE centering.out.x = centering.args.start_x + COMPONENT_PADDING
        /\ HalfTowardZero(NumeratorY,
                    centering.out.y - centering.args.start_y + centering.args.offset_y)

C7_Witness ==
    /\ centering.called
    /\ centering.args.is_text_centered
    /\ NumeratorX < 0 /\ NumeratorX % 2 = 1
    /\ NumeratorY < 0 /\ NumeratorY % 2 = 1
    /\ centering.args.offset_x # 0

====
